---- MODULE Spec2Model ----
(***************************************************************************)
(* Model of xarray_simpleunits/units.py: the unit-aware operator overrides *)
(* (add_u, sub_u, mul_u, truediv_u), the explicit conversions (to_unit,    *)
(* to_si_units) and the activation lifecycle (init_units, reset_units)     *)
(* that patches them into the attribute tables of xr.Variable and          *)
(* xr.DataArray.                                                           *)
(*                                                                         *)
(* Numbers are exact rationals <<num, den>>; floating-point rounding is    *)
(* not modelled.  A unit is kept syntactically, as astropy keeps a         *)
(* CompositeUnit: a scale and a power for every named unit, so that .si,   *)
(* str() and conversion really rewrite it.                                 *)
(***************************************************************************)
EXTENDS Integers, Sequences, FiniteSets, TLC

\* ------------------------------------------------------------------------
\* Bounds of the model
\* ------------------------------------------------------------------------
MaxVal == 2

\* ------------------------------------------------------------------------
\* Exact rational arithmetic
\* ------------------------------------------------------------------------
Abs(n) == IF n < 0 THEN -n ELSE n

RECURSIVE GCD(_, _)
GCD(a, b) == IF b = 0 THEN a ELSE GCD(b, a % b)

Norm(r) ==
    LET g == GCD(Abs(r[1]), Abs(r[2]))
        s == IF r[2] < 0 THEN -1 ELSE 1
    IN  IF r[1] = 0 THEN <<0, 1>> ELSE <<(s * r[1]) \div g, (s * r[2]) \div g>>

RatMul(x, y) ==
    LET g1 == GCD(Abs(x[1]), Abs(y[2]))
        g2 == GCD(Abs(y[1]), Abs(x[2]))
    IN  IF x[1] = 0 \/ y[1] = 0 THEN <<0, 1>>
        ELSE Norm(<<(x[1] \div g1) * (y[1] \div g2), (x[2] \div g2) * (y[2] \div g1)>>)

RatInv(x) == Norm(<<x[2], x[1]>>)

RatDiv(x, y) == RatMul(x, RatInv(y))

RatAdd(x, y) ==
    LET g == GCD(x[2], y[2])
    IN  Norm(<<x[1] * (y[2] \div g) + y[1] * (x[2] \div g), x[2] * (y[2] \div g)>>)

RatSub(x, y) == RatAdd(x, <<-y[1], y[2]>>)

RECURSIVE RatPow(_, _)
RatPow(x, k) ==
    IF k = 0 THEN <<1, 1>>
    ELSE IF k < 0 THEN RatPow(RatInv(x), -k)
    ELSE RatMul(x, RatPow(x, k - 1))

One == <<1, 1>>

\* ------------------------------------------------------------------------
\* The unit library (astropy.units), as far as units.py calls into it
\* ------------------------------------------------------------------------
BaseNames == {"m", "s", "kg"}

Names == {"m", "km", "mm", "s", "h", "kg", "N"}

NameSeq == <<"m", "km", "mm", "s", "h", "kg", "N">>

ZeroPow == [n \in Names |-> 0]

\* Definition of every named unit in SI base units.
Decomp(n) ==
    CASE n = "m"  -> [scale |-> <<1, 1>>,    pow |-> [ZeroPow EXCEPT !["m"] = 1]]
      [] n = "km" -> [scale |-> <<1000, 1>>, pow |-> [ZeroPow EXCEPT !["m"] = 1]]
      [] n = "mm" -> [scale |-> <<1, 1000>>, pow |-> [ZeroPow EXCEPT !["m"] = 1]]
      [] n = "s"  -> [scale |-> <<1, 1>>,    pow |-> [ZeroPow EXCEPT !["s"] = 1]]
      [] n = "h"  -> [scale |-> <<3600, 1>>, pow |-> [ZeroPow EXCEPT !["s"] = 1]]
      [] n = "kg" -> [scale |-> <<1, 1>>,    pow |-> [ZeroPow EXCEPT !["kg"] = 1]]
      [] n = "N"  -> [scale |-> <<1, 1>>,
                      pow |-> [ZeroPow EXCEPT !["kg"] = 1, !["m"] = 1, !["s"] = -2]]

\* au.dimensionless_unscaled, also au.Unit("1") and au.Unit("")
Dimensionless == [scale |-> One, pow |-> ZeroPow]

U1(n) == [scale |-> One, pow |-> [ZeroPow EXCEPT ![n] = 1]]

\* u * v and u / v on units: symbolic, named units are kept as they are
UMul(u, v) == [scale |-> RatMul(u.scale, v.scale),
               pow |-> [n \in Names |-> u.pow[n] + v.pow[n]]]

UDiv(u, v) == [scale |-> RatDiv(u.scale, v.scale),
               pow |-> [n \in Names |-> u.pow[n] - v.pow[n]]]

RECURSIVE SiScale(_, _, _)
SiScale(u, i, acc) ==
    IF i > Len(NameSeq) THEN acc
    ELSE SiScale(u, i + 1, RatMul(acc, RatPow(Decomp(NameSeq[i]).scale, u.pow[NameSeq[i]])))

RECURSIVE SiPow(_, _, _)
SiPow(u, b, i) ==
    IF i > Len(NameSeq) THEN 0
    ELSE u.pow[NameSeq[i]] * Decomp(NameSeq[i]).pow[b] + SiPow(u, b, i + 1)

\* u.si: the unit rewritten in SI base units, the scale factor kept
Si(u) == [scale |-> SiScale(u, 1, u.scale),
          pow |-> [n \in Names |-> IF n \in BaseNames THEN SiPow(u, n, 1) ELSE 0]]

\* (1 * u).si.unit: the SI unit with the scale factor moved into the value
SiUnitOf(u) == [Si(u) EXCEPT !.scale = One]

\* u.to(v) succeeds iff both reduce to the same powers of the SI base units
IsConvertible(u, v) == Si(u).pow = Si(v).pow

\* u.to(v): the factor that turns a value in u into a value in v
UnitTo(u, v) == RatDiv(Si(u).scale, Si(v).scale)

\* astropy's u == v
UnitEq(u, v) == Si(u) = Si(v)

\* ------------------------------------------------------------------------
\* Operands
\* ------------------------------------------------------------------------
\* The "units" information an operand carries: no entry, a string, or a unit
\* object.  A string is modelled by the unit it spells.
NoLabel == [kind |-> "absent", u |-> Dimensionless]

\* str(u)
Str(u) == [kind |-> "str", u |-> u]

Obj(u) == [kind |-> "unit", u |-> u]

\* au.Unit(x) for a string or a unit object x; callers pass "1" for no entry
AuUnit(l) == IF l.kind = "absent" THEN Dimensionless ELSE l.u

\* kind is one of "Variable", "DataArray" (labeled arrays, units = the
\* attrs["units"] entry), "Quantity" (astropy value with a unit), "Unit" (a
\* bare astropy unit) and "number" (int, float, timedelta: nothing but a value)
Array(k, v, l) == [kind |-> k, val |-> v, units |-> l]

Quantity(v, u) == [kind |-> "Quantity", val |-> v, units |-> Obj(u)]

BareUnit(u) == [kind |-> "Unit", val |-> One, units |-> Obj(u)]

Number(v) == [kind |-> "number", val |-> v, units |-> NoLabel]

Nothing == [kind |-> "none", val |-> <<0, 1>>, units |-> NoLabel]

\* Outcome of a call: a returned operand or a raised exception; raw counts
\* the invocations of the host's numeric operators made on the way.
Ok(x, raw) == [ok |-> TRUE, exc |-> "", msg |-> "", x |-> x, raw |-> raw]

Raise(exc, msg, raw) == [ok |-> FALSE, exc |-> exc, msg |-> msg, x |-> Nothing, raw |-> raw]

\* au.UnitConversionError is a au.UnitsError is a ValueError
IsValueError(exc) == exc \in {"ValueError", "UnitsError", "UnitConversionError"}

\* ------------------------------------------------------------------------
\* State
\* ------------------------------------------------------------------------
VARIABLES
    Variable,     \* attributes set on the class xr.Variable
    DataArray,    \* attributes set on the class xr.DataArray
    keep_attrs,   \* xarray's global option keep_attrs
    lastInit,     \* argument of the most recent init_units call, "none" before
    res,          \* the last arithmetic or conversion call and its outcome
    prev          \* the call before it, when res used its result as an operand

vars == <<Variable, DataArray, keep_attrs, lastInit, res, prev>>

Absent == "<absent>"

OpNames == <<"__add__", "__sub__", "__mul__", "__truediv__", "__div__">>

OpSet == {OpNames[i] : i \in 1..Len(OpNames)}

OrigSet == {"__add_orig__", "__sub_orig__", "__mul_orig__", "__truediv_orig__", "__div_orig__"}

VarAttrs == OpSet \cup OrigSet \cup {"to_unit", "to_si_units", "__keep_si__", "__has_units__"}

DAAttrs == {"to_unit", "to_si_units", "__has_units__"}

Overrides == {"add_u", "sub_u", "mul_u", "truediv_u"}

\* The operators xr.Variable defines itself; Python 3 has no __div__.
HostVariable ==
    [n \in VarAttrs |->
        CASE n = "__add__" -> "Variable.__add__"
          [] n = "__sub__" -> "Variable.__sub__"
          [] n = "__mul__" -> "Variable.__mul__"
          [] n = "__truediv__" -> "Variable.__truediv__"
          [] OTHER -> Absent]

HostDataArray == [n \in DAAttrs |-> Absent]

HostImpls == {"Variable.__add__", "Variable.__sub__", "Variable.__mul__", "Variable.__truediv__"}

HostOpOf(f) ==
    CASE f = "Variable.__add__" -> "add"
      [] f = "Variable.__sub__" -> "sub"
      [] f = "Variable.__mul__" -> "mul"
      [] f = "Variable.__truediv__" -> "truediv"

\* getattr(cls, name, default), setattr(cls, name, value), delattr(cls, name)
GetAttr(cls, name, default) == IF cls[name] = Absent THEN default ELSE cls[name]

SetAttr(cls, name, value) == [cls EXCEPT ![name] = value]

DelAttr(cls, name) == [cls EXCEPT ![name] = Absent]

Truthy(v) == v \notin {"False", "None", Absent}

PyBool(b) == IF b THEN "True" ELSE "False"

\* ------------------------------------------------------------------------
\* The host array type (xarray), as far as units.py relies on it
\* ------------------------------------------------------------------------
Arith(op, x, y) ==
    CASE op = "add" -> RatAdd(x, y)
      [] op = "sub" -> RatSub(x, y)
      [] op = "mul" -> RatMul(x, y)
      [] op = "truediv" -> RatDiv(x, y)

\* xr.Variable's own binary operator: elementwise on the values; the result
\* copies the left operand's attrs iff keep_attrs is set.  A bare unit counts
\* as 1, a quantity as its value in * and /; numpy refuses to add or subtract
\* a quantity that has a dimension (astropy's own UnitConversionError).
HostBinOp(op, a, b) ==
    IF op \in {"add", "sub"} /\ b.kind \in {"Quantity", "Unit"}
       /\ ~IsConvertible(b.units.u, Dimensionless)
    THEN Raise("UnitConversionError", "astropy", 1)
    ELSE LET bv == IF op \in {"add", "sub"} /\ b.kind \in {"Quantity", "Unit"}
                   THEN RatMul(b.val, UnitTo(b.units.u, Dimensionless))
                   ELSE b.val
         IN  Ok([kind |-> "Variable",
                 val |-> Arith(op, a.val, bv),
                 units |-> IF keep_attrs THEN a.units ELSE NoLabel], 1)

\* a.<slot>(b) for one of the saved-original slots.  A slot holding an
\* override makes the override call itself without end.
CallOrig(slot, a, b) ==
    LET f == Variable[slot]
    IN  CASE f = Absent -> Raise("AttributeError", slot, 0)
          [] f = "None" -> Raise("TypeError", slot, 0)
          [] f \in HostImpls -> HostBinOp(HostOpOf(f), a, b)
          [] OTHER -> Raise("RecursionError", slot, 0)

ClassOf(x) == IF x.kind = "DataArray" THEN DataArray ELSE Variable

\* ------------------------------------------------------------------------
\* units.py: inference, extraction, conversion
\* ------------------------------------------------------------------------
\* _get_unit(x): x.unit, else au.Unit(x.units), else
\* au.Unit(x.attrs.get("units", "1")), else x itself, else dimensionless.
\* A DataArray exposes an existing attrs entry as the attribute x.units.
get_unit(x) ==
    CASE x.kind = "Quantity" -> x.units.u
      [] x.kind = "DataArray" /\ x.units.kind # "absent" -> AuUnit(x.units)
      [] x.kind \in {"DataArray", "Variable"} ->
            AuUnit(IF x.units.kind = "absent" THEN Str(Dimensionless) ELSE x.units)
      [] x.kind = "Unit" -> x.units.u
      [] OTHER -> Dimensionless

\* _get_values(x): x.value for a quantity, x itself otherwise
get_values(x) == IF x.kind = "Quantity" THEN Number(x.val) ELSE x

\* Fault variant of to_unit: the conversion factor taken the wrong way round.
to_unit_inverse(a, u) ==
    LET src == get_unit(a)
        tgt == AuUnit(u)
    IN  IF ~IsConvertible(src, tgt)
        THEN Raise("UnitConversionError", "astropy", 0)
        ELSE Ok([kind |-> a.kind, val |-> RatMul(UnitTo(tgt, src), a.val), units |-> u], 1)

\* to_unit(a, u): u is the target as passed, a string or a unit object
to_unit(a, u) ==
    LET src == get_unit(a)
        tgt == AuUnit(u)
    IN  IF ~IsConvertible(src, tgt)
        THEN Raise("UnitConversionError", "astropy", 0)
        ELSE Ok([kind |-> a.kind, val |-> RatMul(UnitTo(src, tgt), a.val), units |-> u], 1)

\* a.to_unit(u): the method exists only while it is installed on a's class
call_to_unit(a, u) ==
    IF a.kind \in {"DataArray", "Variable"} /\ ClassOf(a)["to_unit"] = "to_unit"
    THEN to_unit(a, u)
    ELSE Raise("AttributeError", "to_unit", 0)

\* to_si_units(a)
to_si_units(a) ==
    LET ret_u == get_unit(a)
        u == SiUnitOf(ret_u)
    IN  call_to_unit(a, Str(u))

\* Fault variant of _convert: the operand is relabelled but not rescaled.
convert_unscaled(a, u) ==
    CASE a.kind \in {"Quantity", "DataArray", "Variable"} ->
            IF IsConvertible(get_unit(a), u)
            THEN Ok([a EXCEPT !.units = Obj(u)], 0)
            ELSE Raise("UnitConversionError", "astropy", 0)
      [] a.kind = "Unit" ->
            IF IsConvertible(a.units.u, u)
            THEN Ok(Number(One), 0)
            ELSE Raise("UnitConversionError", "astropy", 0)
      [] OTHER -> Raise("AttributeError", "to_unit", 0)

\* _convert(a, u): a.to(u); on AttributeError a.to_unit(u).  Only
\* UnitConversionError is caught (and re-raised) around the second call.
convert(a, u) ==
    CASE a.kind = "Quantity" ->
            IF IsConvertible(a.units.u, u)
            THEN Ok(Quantity(RatMul(a.val, UnitTo(a.units.u, u)), u), 0)
            ELSE Raise("UnitConversionError", "astropy", 0)
      [] a.kind = "Unit" ->
            IF IsConvertible(a.units.u, u)
            THEN Ok(Number(UnitTo(a.units.u, u)), 0)
            ELSE Raise("UnitConversionError", "astropy", 0)
      [] OTHER -> call_to_unit(a, Obj(u))

\* ------------------------------------------------------------------------
\* units.py: the operator overrides
\* ------------------------------------------------------------------------
\* Fault variant of add_u: the unit library's error is not translated.
add_u_untranslated(a, b) ==
    LET a_u == get_unit(a)
        c == convert(b, a_u)
    IN  IF ~c.ok THEN c
        ELSE LET r == CallOrig("__add_orig__", a, get_values(c.x))
             IN  IF ~r.ok THEN [r EXCEPT !.raw = c.raw + r.raw]
                 ELSE Ok([r.x EXCEPT !.units = Str(get_unit(a))], c.raw + r.raw)

add_u(a, b) ==
    LET a_u == get_unit(a)
        c == convert(b, a_u)
    IN  IF ~c.ok
        THEN IF c.exc = "UnitConversionError"
             THEN Raise("ValueError", "Unit mismatch in additon.", c.raw)
             ELSE c
        ELSE LET r == CallOrig("__add_orig__", a, get_values(c.x))
             IN  IF ~r.ok THEN [r EXCEPT !.raw = c.raw + r.raw]
                 ELSE Ok([r.x EXCEPT !.units = Str(get_unit(a))], c.raw + r.raw)

sub_u(a, b) ==
    LET a_u == get_unit(a)
        c == convert(b, a_u)
    IN  IF ~c.ok
        THEN IF c.exc = "UnitConversionError"
             THEN Raise("ValueError", "Unit mismatch in subtraction.", c.raw)
             ELSE c
        ELSE LET r == CallOrig("__sub_orig__", a, get_values(c.x))
             IN  IF ~r.ok THEN [r EXCEPT !.raw = c.raw + r.raw]
                 ELSE Ok([r.x EXCEPT !.units = Str(get_unit(a))], c.raw + r.raw)

\* Fault variant of mul_u: with keep_si on the result is relabelled with the
\* scale-free SI unit but its values are not rescaled.
mul_u_relabelled(a, b) ==
    LET r == CallOrig("__mul_orig__", a, b)
        ret_u == UMul(get_unit(a), get_unit(b))
    IN  IF ~r.ok THEN r
        ELSE IF Truthy(GetAttr(Variable, "__keep_si__", "False"))
             THEN Ok([r.x EXCEPT !.units = Str(SiUnitOf(ret_u))], r.raw)
             ELSE Ok([r.x EXCEPT !.units = Obj(Si(ret_u))], r.raw)

mul_u(a, b) ==
    LET r == CallOrig("__mul_orig__", a, b)
        ret_u == UMul(get_unit(a), get_unit(b))
    IN  IF ~r.ok THEN r
        ELSE LET ret == [r.x EXCEPT !.units = Obj(Si(ret_u))]
             IN  IF Truthy(GetAttr(Variable, "__keep_si__", "False"))
                 THEN LET t == call_to_unit(ret, Str(SiUnitOf(ret_u)))
                      IN  [t EXCEPT !.raw = r.raw + t.raw]
                 ELSE Ok(ret, r.raw)

\* Fault variant of truediv_u: the composed unit is stamped without .si.
truediv_u_unreduced(a, b) ==
    LET r == CallOrig("__truediv_orig__", a, b)
        ret_u == UDiv(get_unit(a), get_unit(b))
    IN  IF ~r.ok THEN r
        ELSE LET ret == [r.x EXCEPT !.units = Obj(ret_u)]
             IN  IF Truthy(GetAttr(Variable, "__keep_si__", "False"))
                 THEN LET t == call_to_unit(ret, Str(SiUnitOf(ret_u)))
                      IN  [t EXCEPT !.raw = r.raw + t.raw]
                 ELSE Ok(ret, r.raw)

truediv_u(a, b) ==
    LET r == CallOrig("__truediv_orig__", a, b)
        ret_u == UDiv(get_unit(a), get_unit(b))
    IN  IF ~r.ok THEN r
        ELSE LET ret == [r.x EXCEPT !.units = Obj(Si(ret_u))]
             IN  IF Truthy(GetAttr(Variable, "__keep_si__", "False"))
                 THEN LET t == call_to_unit(ret, Str(SiUnitOf(ret_u)))
                      IN  [t EXCEPT !.raw = r.raw + t.raw]
                 ELSE Ok(ret, r.raw)

\* FUNC_MAP
FUNC_MAP(n) ==
    CASE n = "__add__" -> "add_u"
      [] n = "__sub__" -> "sub_u"
      [] n = "__mul__" -> "mul_u"
      [] n = "__truediv__" -> "truediv_u"
      [] n = "__div__" -> "truediv_u"

\* _a[:-2] + "_orig__"
OrigAttr(n) ==
    CASE n = "__add__" -> "__add_orig__"
      [] n = "__sub__" -> "__sub_orig__"
      [] n = "__mul__" -> "__mul_orig__"
      [] n = "__truediv__" -> "__truediv_orig__"
      [] n = "__div__" -> "__div_orig__"

\* a <op> b as Python evaluates it on a Variable: whatever the class has in
\* the operator's slot is called.
SlotOf(op) ==
    CASE op = "add" -> "__add__"
      [] op = "sub" -> "__sub__"
      [] op = "mul" -> "__mul__"
      [] op = "truediv" -> "__truediv__"

BinOp(op, a, b) ==
    LET f == Variable[SlotOf(op)]
    IN  CASE f = "add_u" -> add_u(a, b)
          [] f = "sub_u" -> sub_u(a, b)
          [] f = "mul_u" -> mul_u(a, b)
          [] f = "truediv_u" -> truediv_u(a, b)
          [] f \in HostImpls -> HostBinOp(HostOpOf(f), a, b)
          [] OTHER -> Raise("TypeError", SlotOf(op), 0)

\* ------------------------------------------------------------------------
\* units.py: activation and deactivation
\* ------------------------------------------------------------------------
NoRes == [op |-> "none", a |-> Nothing, b |-> Nothing, arg |-> NoLabel,
          out |-> Raise("", "", 0), chained |-> "none", active |-> FALSE, keep_si |-> Absent]

\* the loop over FUNC_MAP.items() in init_units, from the i-th item on
RECURSIVE InstallLoop(_, _)
InstallLoop(cls, i) ==
    IF i > Len(OpNames) THEN cls
    ELSE LET a == OpNames[i]
             orig_func == GetAttr(cls, a, "None")
         IN  InstallLoop(SetAttr(SetAttr(cls, OrigAttr(a), orig_func), a, FUNC_MAP(a)), i + 1)

\* Fault variant of the loop in reset_units: an operator that did not exist
\* before activation is left behind as None instead of being deleted.
RECURSIVE RestoreLoop_keeps_none(_, _)
RestoreLoop_keeps_none(cls, i) ==
    IF i > Len(OpNames) THEN cls
    ELSE LET a == OpNames[i]
             orig_func == GetAttr(cls, OrigAttr(a), "None")
         IN  RestoreLoop_keeps_none(DelAttr(SetAttr(cls, a, orig_func), OrigAttr(a)), i + 1)

\* the loop over FUNC_MAP.items() in reset_units, from the i-th item on
RECURSIVE RestoreLoop(_, _)
RestoreLoop(cls, i) ==
    IF i > Len(OpNames) THEN cls
    ELSE LET a == OpNames[i]
             orig_func == GetAttr(cls, OrigAttr(a), "None")
             restored == DelAttr(SetAttr(cls, a, orig_func), OrigAttr(a))
         IN  RestoreLoop(IF orig_func = "None" THEN DelAttr(restored, a) ELSE restored, i + 1)

\* Fault variant of init_units: no check for an earlier activation.
init_units_unguarded(keep_si) ==
    /\ Variable' =
          SetAttr(SetAttr(SetAttr(SetAttr(InstallLoop(Variable, 1),
              "to_unit", "to_unit"),
              "to_si_units", "to_si_units"),
              "__keep_si__", PyBool(keep_si)),
              "__has_units__", "True")
    /\ DataArray' =
          SetAttr(SetAttr(SetAttr(DataArray,
              "to_unit", "to_unit"),
              "to_si_units", "to_si_units"),
              "__has_units__", "True")
    /\ keep_attrs' = TRUE
    /\ lastInit' = PyBool(keep_si)
    /\ res' = NoRes
    /\ prev' = NoRes

init_units(keep_si) ==
    /\ IF Truthy(GetAttr(Variable, "__has_units__", "False"))
       THEN /\ Variable' = SetAttr(Variable, "__keep_si__", PyBool(keep_si))
            /\ UNCHANGED <<DataArray, keep_attrs>>
       ELSE /\ Variable' =
                 SetAttr(SetAttr(SetAttr(SetAttr(InstallLoop(Variable, 1),
                     "to_unit", "to_unit"),
                     "to_si_units", "to_si_units"),
                     "__keep_si__", PyBool(keep_si)),
                     "__has_units__", "True")
            /\ DataArray' =
                 SetAttr(SetAttr(SetAttr(DataArray,
                     "to_unit", "to_unit"),
                     "to_si_units", "to_si_units"),
                     "__has_units__", "True")
            /\ keep_attrs' = TRUE
    /\ lastInit' = PyBool(keep_si)
    /\ res' = NoRes
    /\ prev' = NoRes

\* Fault variant of reset_units: it also switches keep_attrs off again.
reset_units_restoring_options ==
    /\ IF ~Truthy(GetAttr(Variable, "__has_units__", "False"))
       THEN UNCHANGED <<Variable, DataArray, keep_attrs>>
       ELSE /\ Variable' =
                 DelAttr(DelAttr(DelAttr(DelAttr(RestoreLoop(Variable, 1),
                     "to_unit"), "to_si_units"), "__keep_si__"), "__has_units__")
            /\ DataArray' =
                 DelAttr(DelAttr(DelAttr(DataArray,
                     "to_unit"), "to_si_units"), "__has_units__")
            /\ keep_attrs' = FALSE
    /\ UNCHANGED lastInit
    /\ res' = NoRes
    /\ prev' = NoRes

reset_units ==
    /\ IF ~Truthy(GetAttr(Variable, "__has_units__", "False"))
       THEN UNCHANGED <<Variable, DataArray>>
       ELSE /\ Variable' =
                 DelAttr(DelAttr(DelAttr(DelAttr(RestoreLoop(Variable, 1),
                     "to_unit"), "to_si_units"), "__keep_si__"), "__has_units__")
            /\ DataArray' =
                 DelAttr(DelAttr(DelAttr(DataArray,
                     "to_unit"), "to_si_units"), "__has_units__")
    /\ UNCHANGED <<keep_attrs, lastInit>>
    /\ res' = NoRes
    /\ prev' = NoRes

\* ------------------------------------------------------------------------
\* The calls a program makes
\* ------------------------------------------------------------------------
Vals == {<<n, 1>> : n \in 1..MaxVal}

ArrayUnits == {U1("m"), U1("km"), U1("s")}

ArrayLabels == {NoLabel} \cup {Str(u) : u \in ArrayUnits}

kmh == UDiv(U1("km"), U1("h"))

skg == UDiv(U1("s"), U1("kg"))

QuantityUnits == {U1("m"), U1("s"), kmh}

Targets == {Str(U1("m")), Str(U1("mm")), Str(U1("km")), Str(U1("s"))}

Variables == {Array("Variable", v, l) : v \in Vals, l \in ArrayLabels}

DataArrays == {Array("DataArray", v, l) : v \in Vals, l \in ArrayLabels}

Quantities == {Quantity(v, u) : v \in Vals, u \in QuantityUnits}

Numbers == {Number(v) : v \in Vals}

BareUnits == {BareUnit(U1("s")), BareUnit(skg)}

\* right operands: bare units are used with * and / only
Rights(op) ==
    Variables \cup Quantities \cup Numbers
        \cup (IF op \in {"mul", "truediv"} THEN BareUnits ELSE {})

\* DataArray arithmetic hands its Variable to the Variable operator
AsVariable(x) == [x EXCEPT !.kind = "Variable"]

\* One more call may follow on the result of a call of the kinds given, as
\* in s + t * q, s / t / q and a.to_unit(v).to_unit(u); such expressions are
\* followed where the overrides are installed.
CanChain(ops) == res.op \in ops /\ res.active /\ res.out.ok /\ res.chained = "none"

IsActive == Truthy(GetAttr(Variable, "__has_units__", "False"))

Record(op, a, b, arg, out, ch) ==
    /\ res' = [op |-> op, a |-> a, b |-> b, arg |-> arg, out |-> out, chained |-> ch,
               active |-> IsActive, keep_si |-> Variable["__keep_si__"]]
    /\ prev' = IF ch = "none" THEN NoRes ELSE res
    /\ UNCHANGED <<Variable, DataArray, keep_attrs, lastInit>>

\* A program evaluates one expression at a time: a call on fresh operands,
\* optionally one more call on its result, then the result is dropped.
Fresh == res.op = "none"

Discard ==
    /\ res.op # "none"
    /\ res' = NoRes
    /\ prev' = NoRes
    /\ UNCHANGED <<Variable, DataArray, keep_attrs, lastInit>>

\* a + b, a - b: on fresh operands, or with the last result on the right
Additive(op) ==
    \/ /\ Fresh
       /\ \E a \in Variables, b \in Rights(op) :
           Record(op, a, b, NoLabel, BinOp(op, a, b), "none")
    \/ /\ CanChain({"mul", "truediv"})
       /\ \E a \in Variables :
           Record(op, a, AsVariable(res.out.x), NoLabel,
                  BinOp(op, a, AsVariable(res.out.x)), "b")

\* a * b, a / b: on fresh operands, or with the last result on the left
Multiplicative(op) ==
    \/ /\ Fresh
       /\ \E a \in Variables, b \in Rights(op) :
           Record(op, a, b, NoLabel, BinOp(op, a, b), "none")
    \/ /\ CanChain({"mul", "truediv"})
       /\ \E b \in Quantities \cup BareUnits :
           Record(op, AsVariable(res.out.x), b, NoLabel,
                  BinOp(op, AsVariable(res.out.x), b), "a")

Add == Additive("add")

Sub == Additive("sub")

Mul == Multiplicative("mul")

TrueDiv == Multiplicative("truediv")

\* a.to_unit(u)
ToUnit ==
    \/ /\ Fresh
       /\ \E a \in Variables \cup DataArrays, u \in Targets :
           Record("to_unit", a, Nothing, u, call_to_unit(a, u), "none")
    \/ /\ CanChain({"to_unit"})
       /\ \E u \in Targets :
           Record("to_unit", res.out.x, Nothing, u, call_to_unit(res.out.x, u), "a")

\* a.to_si_units()
call_to_si_units(a) ==
    IF a.kind \in {"DataArray", "Variable"} /\ ClassOf(a)["to_si_units"] = "to_si_units"
    THEN to_si_units(a)
    ELSE Raise("AttributeError", "to_si_units", 0)

ToSiUnits ==
    \/ /\ Fresh
       /\ \E a \in Variables \cup DataArrays :
           Record("to_si_units", a, Nothing, NoLabel, call_to_si_units(a), "none")
    \/ /\ CanChain({"to_si_units"})
       /\ Record("to_si_units", res.out.x, Nothing, NoLabel,
                 call_to_si_units(res.out.x), "a")

Init ==
    /\ Variable = HostVariable
    /\ DataArray = HostDataArray
    /\ keep_attrs = FALSE
    /\ lastInit = "none"
    /\ res = NoRes
    /\ prev = NoRes

Next ==
    \/ \E keep_si \in BOOLEAN : init_units(keep_si)
    \/ reset_units
    \/ Add
    \/ Sub
    \/ Mul
    \/ TrueDiv
    \/ ToUnit
    \/ ToSiUnits
    \/ Discard

Spec == Init /\ [][Next]_vars

\* ------------------------------------------------------------------------
\* Properties
\* ------------------------------------------------------------------------
\* the unit an operand denotes, read off its label
UnitOf(x) == AuUnit(x.units)

\* an array with a units entry, or a unit-bearing scalar
BearsUnit(x) ==
    \/ x.kind = "Quantity"
    \/ x.kind = "Variable" /\ x.units.kind # "absent"

AddSubActive == res.op \in {"add", "sub"} /\ res.active

MulDivActive == res.op \in {"mul", "truediv"} /\ res.active

\* messages that contain the words "Unit mismatch"
MismatchMessages ==
    {"Unit mismatch in addition.", "Unit mismatch in additon.", "Unit mismatch in subtraction."}

\* the unit unit(a) * unit(b), resp. unit(a) / unit(b), of a recorded call
Composed(r) ==
    IF r.op = "mul" THEN UMul(UnitOf(r.a), UnitOf(r.b)) ELSE UDiv(UnitOf(r.a), UnitOf(r.b))

\* what the host's own operator computes on the values of a recorded call
RawValue(r) == Arith(r.op, r.a.val, r.b.val)

\* C1: with units active, a + b and a - b with a unit-bearing b whose unit is
\* commensurable with a's succeed, the values are a (+/-) factor(u_b -> u_a) * b,
\* and the result's "units" entry is the string form of u_a.
C1_AddSubConvertsRight ==
    (AddSubActive /\ BearsUnit(res.b) /\ IsConvertible(UnitOf(res.b), UnitOf(res.a)))
    => /\ res.out.ok
       /\ res.out.x.val =
            Arith(res.op, res.a.val, RatMul(UnitTo(UnitOf(res.b), UnitOf(res.a)), res.b.val))
       /\ res.out.x.units = Str(UnitOf(res.a))

\* an m-array plus a km-array: the km values arrive multiplied by 1000, in m
C1_Witness ==
    /\ AddSubActive /\ res.op = "add" /\ res.out.ok
    /\ res.a.units = Str(U1("m"))
    /\ res.b.kind = "Variable" /\ res.b.units = Str(U1("km"))
    /\ res.out.x.val = RatAdd(res.a.val, RatMul(<<1000, 1>>, res.b.val))
    /\ res.out.x.units = Str(U1("m"))

\* C2: with units active, a + b and a - b with a unit-bearing b whose unit is
\* not convertible to a's raise a ValueError whose message contains
\* "Unit mismatch"; the host operation is never invoked and nothing is returned.
C2_AddSubMismatchRaises ==
    (AddSubActive /\ BearsUnit(res.b) /\ ~IsConvertible(UnitOf(res.b), UnitOf(res.a)))
    => /\ ~res.out.ok
       /\ res.out.exc = "ValueError"
       /\ res.out.msg \in MismatchMessages
       /\ res.out.raw = 0
       /\ res.out.x = Nothing

\* an m-array minus a quantity in s
C2_Witness ==
    /\ AddSubActive /\ res.op = "sub"
    /\ res.a.units = Str(U1("m"))
    /\ res.b.kind = "Quantity" /\ res.b.units.u = U1("s")
    /\ ~res.out.ok /\ res.out.msg = "Unit mismatch in subtraction."

\* C3: in add and sub a right operand that is a bare number (or a timedelta)
\* counts as dimensionless: with a non-dimensionless left array the call raises
\* the unit-mismatch ValueError, with a left array without units entry it
\* succeeds and returns the host's result.
C3_BareNumberIsDimensionless ==
    (AddSubActive /\ res.b.kind = "number")
    => /\ ~IsConvertible(UnitOf(res.a), Dimensionless)
            => (~res.out.ok /\ res.out.exc = "ValueError" /\ res.out.msg \in MismatchMessages)
       /\ res.a.units.kind = "absent"
            => (res.out.ok /\ res.out.x.val = RawValue(res))

\* C4 as stated: with units active a * b and a / b always succeed, the values
\* are the host's and the "units" entry is the SI-reduced composed unit.
C4_MulDivRawValuesAlways ==
    MulDivActive
    => /\ res.out.ok
       /\ res.out.x.val = RawValue(res)
       /\ UnitEq(UnitOf(res.out.x), Si(Composed(res)))

\* C4 amended: with units active a * b and a / b always succeed; with keep_si
\* off the values are the host's and the "units" entry is the SI-reduced
\* composed unit (scale included); with keep_si on the values are the host's
\* times the scale of that unit and the entry is the string of its scale-free
\* SI unit.  A bare number counts as dimensionless.
C4_MulDivComposes ==
    MulDivActive
    => /\ res.out.ok
       /\ res.keep_si = "False"
            => /\ res.out.x.val = RawValue(res)
               /\ res.out.x.units = Obj(Si(Composed(res)))
       /\ res.keep_si = "True"
            => /\ res.out.x.val = RatMul(Si(Composed(res)).scale, RawValue(res))
               /\ res.out.x.units = Str(SiUnitOf(Composed(res)))

\* (m / s) / (s / kg) is labelled as equal to N
C4_Witness ==
    /\ MulDivActive /\ res.op = "truediv" /\ res.chained = "a"
    /\ prev.op = "truediv" /\ prev.a.units = Str(U1("m")) /\ prev.b.units = Str(U1("s"))
    /\ res.b = BareUnit(skg)
    /\ res.out.ok
    /\ UnitEq(UnitOf(res.out.x), U1("N"))

\* the attribute table of xr.Variable right after a first activation
FirstActivation(keep_si) ==
    [n \in VarAttrs |->
        CASE n \in OpSet -> FUNC_MAP(n)
          [] n = "__add_orig__" -> "Variable.__add__"
          [] n = "__sub_orig__" -> "Variable.__sub__"
          [] n = "__mul_orig__" -> "Variable.__mul__"
          [] n = "__truediv_orig__" -> "Variable.__truediv__"
          [] n = "__div_orig__" -> "None"
          [] n = "to_unit" -> "to_unit"
          [] n = "to_si_units" -> "to_si_units"
          [] n = "__keep_si__" -> keep_si
          [] n = "__has_units__" -> "True"]

\* C5: the activation flag and the operator table are consistent.  Flag set:
\* every operator slot holds its override, every saved-original slot holds the
\* pre-activation implementation (None when there was none) and never an
\* override, to_unit and to_si_units are installed on both classes, and
\* __keep_si__ is the argument of the most recent init_units call.  Flag
\* unset: no override, saved original, conversion method or __keep_si__ remains.
C5_FlagAndTableConsistent ==
    /\ DataArray["__has_units__"] = Variable["__has_units__"]
    /\ IsActive
         => /\ \A n \in OpSet :
                 /\ Variable[n] = FUNC_MAP(n)
                 /\ Variable[OrigAttr(n)] \notin Overrides \cup {Absent}
                 /\ Variable[OrigAttr(n)] =
                        (IF HostVariable[n] = Absent THEN "None" ELSE HostVariable[n])
            /\ \A m \in {"to_unit", "to_si_units"} : Variable[m] = m /\ DataArray[m] = m
            /\ Variable["__keep_si__"] = lastInit
    /\ ~IsActive
         => /\ \A n \in OpSet :
                 /\ Variable[n] \notin Overrides
                 /\ Variable[OrigAttr(n)] = Absent
            /\ \A m \in {"to_unit", "to_si_units"} : Variable[m] = Absent /\ DataArray[m] = Absent
            /\ Variable["__keep_si__"] = Absent

\* active with keep_si on, an addition having gone through the override and
\* the saved original
C5_Witness ==
    /\ IsActive /\ Variable["__keep_si__"] = "True"
    /\ Variable["__div_orig__"] = "None"
    /\ res.op = "add" /\ res.out.ok /\ res.out.raw = 1

\* the attribute table of xr.DataArray right after a first activation
FirstActivationDA ==
    [n \in DAAttrs |-> IF n = "__has_units__" THEN "True" ELSE n]

\* C6: reset_units in the Active state restores every operator slot to the
\* implementation it had before activation (__div__ is removed again), in
\* the Inactive state it changes nothing, and every activation, the one after
\* a reset included, yields the tables of a first activation and with them
\* the same behaviour: an m-array plus a km-array is in m.
C6_LifecycleRoundTrip ==
    [][/\ (IsActive /\ ~IsActive')
            => (Variable' = HostVariable /\ DataArray' = HostDataArray)
       /\ (~IsActive /\ ~IsActive')
            => UNCHANGED <<Variable, DataArray, keep_attrs, lastInit>>
       /\ (~IsActive /\ IsActive')
            => /\ Variable' = FirstActivation(lastInit')
               /\ DataArray' = FirstActivationDA
               /\ keep_attrs'
       /\ (/\ res'.op = "add" /\ res'.active /\ res'.b.kind = "Variable"
           /\ res'.a.units = Str(U1("m")) /\ res'.b.units = Str(U1("km")))
            => res'.out = Ok(Array("Variable",
                                   RatAdd(res'.a.val, RatMul(<<1000, 1>>, res'.b.val)),
                                   Str(U1("m"))), 2)
      ]_vars

\* deactivated after an activation: the host's table is back
C6_Witness ==
    /\ ~IsActive /\ lastInit # "none"
    /\ Variable = HostVariable
    /\ Variable["__div__"] = Absent

\* C7: in * and /, with keep_si on the values are the host's times the scale
\* of the composed unit and the label has scale 1; with keep_si off the values
\* are the host's and the label carries the scale.  Either way value times
\* label scale is the same quantity, so a following addition a + (t * q)
\* gives a plus the product expressed in a's unit.
C7_KeepSiScoping ==
    /\ (MulDivActive /\ res.out.ok)
         => /\ res.keep_si = "True"
                 => /\ res.out.x.val = RatMul(Si(Composed(res)).scale, RawValue(res))
                    /\ UnitOf(res.out.x) = SiUnitOf(Composed(res))
            /\ res.keep_si = "False"
                 => /\ res.out.x.val = RawValue(res)
                    /\ UnitOf(res.out.x) = Si(Composed(res))
    /\ (/\ res.op = "add" /\ res.active /\ res.chained = "b"
        /\ prev.op \in {"mul", "truediv"} /\ prev.active
        /\ IsConvertible(Composed(prev), UnitOf(res.a)))
         => /\ res.out.ok
            /\ res.out.x.val =
                 RatAdd(res.a.val, RatMul(UnitTo(Composed(prev), UnitOf(res.a)), RawValue(prev)))

\* s[m] + t[s] * (q km/h) with keep_si on: the product arrives in m, 5/18 of
\* the raw product
C7_Witness ==
    /\ res.op = "add" /\ res.active /\ res.chained = "b" /\ res.keep_si = "True"
    /\ prev.op = "mul" /\ prev.keep_si = "True"
    /\ prev.a.units = Str(U1("s")) /\ prev.b.kind = "Quantity" /\ prev.b.units.u = kmh
    /\ res.a.units = Str(U1("m"))
    /\ res.b.val = RatMul(<<5, 18>>, RawValue(prev))
    /\ res.out.ok
    /\ res.out.x.val = RatAdd(res.a.val, res.b.val)

\* C8: to_unit(a, v) on an array whose unit u is commensurable with v
\* multiplies the values by factor(u -> v) and stamps v; converting back to u
\* gives the values of a again; with v not commensurable it raises the unit
\* library's error (a ValueError) and returns nothing.
C8_ToUnitRoundTrip ==
    (res.op = "to_unit" /\ res.active)
    => /\ IsConvertible(UnitOf(res.a), AuUnit(res.arg))
            => /\ res.out.ok
               /\ res.out.x.val = RatMul(UnitTo(UnitOf(res.a), AuUnit(res.arg)), res.a.val)
               /\ res.out.x.units = res.arg
       /\ ~IsConvertible(UnitOf(res.a), AuUnit(res.arg))
            => /\ ~res.out.ok
               /\ IsValueError(res.out.exc)
               /\ res.out.x = Nothing
       /\ (res.chained = "a" /\ prev.op = "to_unit" /\ AuUnit(res.arg) = UnitOf(prev.a))
            => /\ res.out.ok
               /\ res.out.x.val = prev.a.val
               /\ UnitOf(res.out.x) = UnitOf(prev.a)

\* a km-array converted to mm and back to km
C8_Witness ==
    /\ res.op = "to_unit" /\ res.active /\ res.chained = "a"
    /\ prev.op = "to_unit" /\ prev.a.units = Str(U1("km")) /\ prev.arg = Str(U1("mm"))
    /\ prev.out.x.val = RatMul(<<1000000, 1>>, prev.a.val)
    /\ res.arg = Str(U1("km"))
    /\ res.out.ok /\ res.out.x.val = prev.a.val

\* C9: the unit-mismatch message names the operation: "Unit mismatch in
\* addition." from add, "Unit mismatch in subtraction." from sub.
C9_MismatchMessageNamesOperation ==
    (AddSubActive /\ ~res.out.ok /\ res.out.exc = "ValueError")
    => res.out.msg = (IF res.op = "add" THEN "Unit mismatch in addition."
                                        ELSE "Unit mismatch in subtraction.")

\* C10: reset_units leaves the keep_attrs option on.  Once init_units has
\* run, keep_attrs is true in every later state, so also after deactivation
\* the host's own operators copy the left operand's "units" entry to the
\* result: m / m is still labelled m.
C10_KeepAttrsStaysOn ==
    /\ lastInit # "none" => keep_attrs
    /\ (/\ res.op \in {"add", "sub", "mul", "truediv"}
        /\ ~res.active /\ lastInit # "none" /\ res.out.ok)
         => res.out.x.units = res.a.units

\* deactivated again, an m-array divided by an m-array
C10_Witness ==
    /\ ~IsActive /\ lastInit # "none" /\ keep_attrs
    /\ res.op = "truediv" /\ ~res.active /\ res.out.ok
    /\ res.a.units = Str(U1("m")) /\ res.b.units = Str(U1("m"))
    /\ res.out.x.units = Str(U1("m"))

====
